---- MODULE Spec2Model ----
(***************************************************************************)
(* LocationsManager (lib/portage/package/ebuild/_config/LocationsManager.py) *)
(* as a state machine: load_profiles with the recursive _addProfile walk    *)
(* over the profile parent graph, _expand_parent_colon, and                 *)
(* set_root_override.                                                       *)
(*                                                                          *)
(* Strings are sequences of tokens: "/" is the path separator, ":" the      *)
(* colon, " " and "\n" are whitespace, every other token stands for a run   *)
(* of ordinary characters (a name).  A pathlib.Path is a record             *)
(* [abs, parts], parts being the sequence of its segments, each segment a   *)
(* string.  The modelled file system has no symbolic links, so resolve()    *)
(* and realpath() return their argument.                                    *)
(***************************************************************************)
EXTENDS Integers, Sequences, FiniteSets, TLC

VARIABLES
    \* ---- the inputs of load_profiles: file system, repositories, globals
    parentFile,          \* profile dir -> its `parent` file
    eapiFile,            \* profile dir -> its `eapi` file
    layouts,             \* repository location -> layout_data
    config_profile_path, \* constructor argument (None or a path)
    user_config,         \* self._user_config
    sync_mode,           \* portage._sync_mode
    \* ---- load_profiles / _addProfile
    pc,                  \* "start", "resolving", "raised", "user", "done"
    profile_path,        \* self.profile_path
    callstack,           \* the _addProfile activations, outermost first
    profiles,            \* self.profiles
    profiles_complex,    \* self.profiles_complex
    user_profile_dir,    \* self.user_profile_dir
    error,               \* the ParseError in flight or caught
    logged,              \* the writemsg calls of the except clause were made
    discarded,           \* entries dropped by the except clause
    visited,             \* paths _addProfile was called with
    warned,              \* the warnings.warn calls made
    expanded,            \* how each processed parent reference was turned into a path
    custom_seen,         \* what custom_prof.exists() answered: "unread", "yes", "no"
    \* ---- set_root_override
    eprefix,             \* self.eprefix
    sysroot,             \* self.sysroot
    target_root,         \* self.target_root
    root_outcome,        \* "none", "ok" or the exception set_root_override raised
    ensured,             \* ensure_dirs(target_root) was called
    eroot,               \* self.eroot
    global_config_path,  \* self.global_config_path
    root_call            \* the arguments set_root_override ran with

fsvars   == <<parentFile, eapiFile, layouts, config_profile_path, user_config, sync_mode>>
loadvars == <<pc, profile_path, callstack, profiles, profiles_complex, user_profile_dir, error,
              logged, discarded, visited, warned, expanded, custom_seen>>
rootvars == <<eprefix, sysroot, target_root, root_outcome, ensured, eroot,
              global_config_path, root_call>>
vars     == <<fsvars, loadvars, rootvars>>

\* Deepest nesting of _addProfile activations explored.  Acyclic graphs over
\* the modelled directories are never deeper than the number of profile
\* directories, so only a cyclic parent graph reaches the cap.
MaxDepth == 7

-----------------------------------------------------------------------------
(* Strings *)

sep   == "/"
colon_char == ":"
Whitespace == {" ", "\n"}

\* None, as a string value (eapi) and as a path value (repo_loc, profile_path)
NoneStr  == <<"None">>
NonePath == [abs |-> FALSE, parts |-> <<NoneStr>>]

\* str.find(c): index of the first c, counted from 0; -1 when absent
RECURSIVE FindFrom(_, _, _)
FindFrom(s, c, k) ==
    IF k > Len(s) THEN -1
    ELSE IF s[k] = c THEN k - 1
    ELSE FindFrom(s, c, k + 1)

find(s, c) == FindFrom(s, c, 1)

\* s[n:] and s[:n] with 0-based n
SliceFrom(s, n) == SubSeq(s, n + 1, Len(s))
SliceTo(s, n)   == SubSeq(s, 1, n)

startswith(s, c) == s # <<>> /\ s[1] = c

\* str.strip(): leading and trailing whitespace removed
RECURSIVE lstrip(_)
lstrip(s) == IF s # <<>> /\ s[1] \in Whitespace THEN lstrip(Tail(s)) ELSE s

RECURSIVE rstrip(_)
rstrip(s) ==
    IF s # <<>> /\ s[Len(s)] \in Whitespace THEN rstrip(SubSeq(s, 1, Len(s) - 1)) ELSE s

strip(s) == rstrip(lstrip(s))

-----------------------------------------------------------------------------
(* Paths *)

\* the segments of a string: the pieces between separators, empty pieces dropped
RECURSIVE PathParts(_)
PathParts(s) ==
    IF s = <<>> THEN <<>>
    ELSE LET k == find(s, sep) IN
         IF k = -1 THEN <<s>>
         ELSE (IF k = 0 THEN <<>> ELSE <<SliceTo(s, k)>>) \o PathParts(SliceFrom(s, k + 1))

\* pathlib.Path(s)
Path(s) == [abs |-> startswith(s, sep), parts |-> PathParts(s)]

\* os.fspath(p) / str(p)
RECURSIVE JoinParts(_)
JoinParts(parts) ==
    IF parts = <<>> THEN <<>>
    ELSE IF Len(parts) = 1 THEN parts[1]
    ELSE parts[1] \o <<sep>> \o JoinParts(Tail(parts))

fspath(p) == IF p.abs THEN <<sep>> \o JoinParts(p.parts) ELSE JoinParts(p.parts)

\* a / b: b replaces a when b is absolute
joinpath(a, b) == IF b.abs THEN b ELSE [abs |-> a.abs, parts |-> a.parts \o b.parts]

\* os.path.join(a, b) on strings
os_path_join(a, b) ==
    IF startswith(b, sep) THEN b
    ELSE IF a = <<>> \/ a[Len(a)] = sep THEN a \o b
    ELSE a \o <<sep>> \o b

\* normalize_path: "." dropped, ".." cancels the segment before it (and is
\* dropped at the root of an absolute path)
RECURSIVE NormParts(_, _, _)
NormParts(done, todo, abs) ==
    IF todo = <<>> THEN done
    ELSE LET h == todo[1] IN
         IF h = <<".">> THEN NormParts(done, Tail(todo), abs)
         ELSE IF h = <<"..">> THEN
             IF done # <<>> /\ done[Len(done)] # <<"..">>
             THEN NormParts(SubSeq(done, 1, Len(done) - 1), Tail(todo), abs)
             ELSE IF abs THEN NormParts(done, Tail(todo), abs)
             ELSE NormParts(Append(done, h), Tail(todo), abs)
         ELSE NormParts(Append(done, h), Tail(todo), abs)

normalize_path(p) == [abs |-> p.abs, parts |-> NormParts(<<>>, p.parts, p.abs)]

\* portage.is_relative_to(path, base): base is a prefix of path, by segments
is_relative_to(path, base) ==
    /\ path.abs = base.abs
    /\ Len(base.parts) <= Len(path.parts)
    /\ SubSeq(path.parts, 1, Len(base.parts)) = base.parts

\* an absolute directory named by its segment names
Dir(names) == [abs |-> TRUE, parts |-> [i \in 1..Len(names) |-> <<names[i]>>]]

-----------------------------------------------------------------------------
(* The modelled file system and repositories *)

\* repository locations; RN is nested inside R1
R1 == Dir(<<"r1">>)
RN == Dir(<<"r1", "n">>)
R2 == Dir(<<"r2">>)

\* profile directories
A == Dir(<<"r1", "profiles", "a">>)
B == Dir(<<"r1", "profiles", "b">>)
C == Dir(<<"r2", "profiles", "c">>)
D == Dir(<<"r1", "n", "profiles", "d">>)
E == Dir(<<"e">>)
\* a directory inside A whose name contains a colon: /r1/profiles/a/r2:c
L == [abs |-> TRUE, parts |-> A.parts \o <<<<"r2", colon_char, "c">>>>]

ProfileDirs == {A, B, C, D, E, L}
RepoLocs    == {R1, RN, R2}

\* exists_raise_eaccess on a directory path: the profile directories and
\* their ancestors exist
exists_raise_eaccess(p) == \E d \in ProfileDirs : is_relative_to(d, p)

\* _os.listdir(currentPath), and which entries are directories
listdir(p) ==
    IF p = A THEN {"package.mask", "use.mask", "r2:c"}
    ELSE IF p = B THEN {"package.use", "use.force"}
    ELSE IF p = C THEN {"package.mask", "make.defaults"}
    ELSE IF p = D THEN {"package.mask"}
    ELSE IF p = E THEN {"use.mask"}
    ELSE {}

is_dir(p, x) ==
    \/ p = A /\ x \in {"package.mask", "r2:c"}
    \/ p = B /\ x \in {"package.use", "use.force"}
    \/ p = D /\ x = "package.mask"
    \/ p = E /\ x = "use.mask"

_PORTAGE1_DIRECTORIES ==
    {"package.mask", "package.provided", "package.use", "package.use.mask",
     "package.use.force", "use.mask", "use.force"}

_allow_parent_colon == {"portage-2"}

\* portage.repository.config._portage1_profiles_allow_directories
_portage1_profiles_allow_directories == {"portage-1-compat", "portage-1", "portage-2"}

\* portage.eapi_is_supported
SupportedEapis == {<<"0">>, <<"5">>, <<"7">>}
eapi_is_supported(eapi) == strip(eapi) \in SupportedEapis

\* portage.eapi.eapi_allows_directories_on_profile_level_and_repository_level
eapi_allows_directories_on_profile_level_and_repository_level(eapi) ==
    eapi \notin {<<"0">>, <<"5">>}

\* repositories.get_location_for_name: KeyError for any other name
RepoNames == {<<"r1">>, <<"n">>, <<"r2">>}
get_location_for_name(name) ==
    IF name = <<"r1">> THEN R1 ELSE IF name = <<"n">> THEN RN ELSE R2

\* known_repos as load_profiles builds it: (location, layout_data) pairs
known_repos == <<<<R1, layouts[R1]>>, <<RN, layouts[RN]>>, <<R2, layouts[R2]>>>>

\* the `parent` and `eapi` files of a directory
NoFile == [exists |-> FALSE, lines |-> <<>>]
NoEapi == [exists |-> FALSE, content |-> <<>>]
ParentsFileOf(p) == IF p \in DOMAIN parentFile THEN parentFile[p] ELSE NoFile
EapiFileOf(p)    == IF p \in DOMAIN eapiFile THEN eapiFile[p] ELSE NoEapi

\* f.readline(): up to and including the first newline
readline(content) ==
    LET k == find(content, "\n") IN IF k = -1 THEN content ELSE SliceTo(content, k + 1)

\* portage.repository.config._profile_node
_profile_node(location, portage1_directories, is_user, formats, eapi, allow_build_id, show) ==
    [path |-> location, allow_directories |-> portage1_directories,
     is_user_profile |-> is_user, formats |-> formats, eapi |-> eapi,
     supports_build_id |-> allow_build_id,
     show_deprecated_warning |-> show]

-----------------------------------------------------------------------------
(* _addProfile, up to the loop over the parents *)

\* the locations of a tuple of known_repos entries: tuple(x[0] for x in ...)
Locations(repos) == [i \in 1..Len(repos) |-> repos[i][1]]

\* tuple(x for x in known_repos if is_relative_to(current_abs_path, x[0]))
IntersectingRepos(current_abs_path) ==
    SelectSeq(known_repos, LAMBDA x : is_relative_to(current_abs_path, x[1]))

\* MaxByParts taking the outermost repository instead of the innermost
MaxByPartsShortest(repos) ==
    LET n(i) == Len(repos[i][1].parts)
        best == CHOOSE i \in 1..Len(repos) : \A j \in 1..Len(repos) : n(i) <= n(j)
    IN repos[best]

\* max(intersecting_repos, key=lambda x: len(x[0].parts)): the first maximal one
MaxByParts(repos) ==
    LET n(i) == Len(repos[i][1].parts)
        best == CHOOSE i \in 1..Len(repos) :
                    /\ \A j \in 1..Len(repos) : n(j) <= n(i)
                    /\ \A j \in 1..(i - 1) : n(j) < n(i)
    IN repos[best]

\* the eapi of the node: the repository default, "0", or the eapi file
ResolveEapi(currentPath, intersecting_repos) ==
    LET fromRepo == IF intersecting_repos # <<>>
                    THEN MaxByParts(intersecting_repos)[2].profile_eapi_when_unspecified
                    ELSE NoneStr
        fallback == IF fromRepo \in {NoneStr, <<>>} THEN <<"0">> ELSE fromRepo
        f        == EapiFileOf(currentPath)
    IN IF f.exists THEN strip(readline(f.content)) ELSE fallback

\* raise ParseError("Profile contains unsupported EAPI ..."): only in the
\* else clause of the try, that is when the eapi file could be opened
UnsupportedEapiRaised(currentPath, eapi) ==
    EapiFileOf(currentPath).exists /\ ~eapi_is_supported(eapi)

\* show_deprecated_warning
ShowDeprecatedWarning(previous_repos, intersecting_repos) ==
    Locations(previous_repos) # Locations(intersecting_repos)

\* offenders: the legacy names present as directories
Offenders(currentPath) ==
    {x \in _PORTAGE1_DIRECTORIES \cap listdir(currentPath) : is_dir(currentPath, x)}

\* LegacyWarnIssued with the advisory held back when show_deprecated_warning
\* is false
LegacyWarnGated(compat_mode, show_deprecated_warning, offenders) ==
    compat_mode /\ offenders # {} /\ show_deprecated_warning

\* warnings.warn is called
LegacyWarnIssued(compat_mode, show_deprecated_warning, offenders) ==
    compat_mode /\ offenders # {}

\* the activation record of _addProfile(currentPath, ..., previous_repos) when
\* it reaches the loop, and the exception it raises before, if any
AddProfileEntry(currentPath, previous_repos) ==
    LET current_abs_path   == currentPath
        intersecting_repos == IntersectingRepos(current_abs_path)
        matched            == intersecting_repos # <<>>
        repo_loc           == IF matched THEN MaxByParts(intersecting_repos)[1] ELSE NonePath
        formats            == IF matched
                              THEN MaxByParts(intersecting_repos)[2].profile_formats
                              ELSE <<>>
        eapi               == ResolveEapi(currentPath, intersecting_repos)
        eapi_dirs          == eapi_allows_directories_on_profile_level_and_repository_level(eapi)
        allow_directories  ==
            IF matched
            THEN eapi_dirs \/ \E i \in 1..Len(formats) :
                                  formats[i] \in _portage1_profiles_allow_directories
            ELSE TRUE
        compat_mode        == matched /\ ~eapi_dirs /\ formats = <<"portage-1-compat">>
        allow_parent_colon ==
            IF matched
            THEN \E i \in 1..Len(formats) : formats[i] \in _allow_parent_colon
            ELSE TRUE
        show               == ShowDeprecatedWarning(previous_repos, intersecting_repos)
        pf                 == ParentsFileOf(currentPath)
        raise              == IF UnsupportedEapiRaised(currentPath, eapi) THEN "unsupported_eapi"
                              ELSE IF pf.exists /\ pf.lines = <<>> THEN "empty_parent"
                              ELSE "none"
    IN [raise |-> raise,
        warn  |-> raise # "unsupported_eapi"
                  /\ LegacyWarnIssued(compat_mode, show, Offenders(currentPath)),
        frame |-> [currentPath |-> currentPath,
                   intersecting_repos |-> intersecting_repos,
                   repo_loc |-> repo_loc,
                   eapi |-> eapi,
                   allow_directories |-> allow_directories,
                   compat_mode |-> compat_mode,
                   allow_parent_colon |-> allow_parent_colon,
                   current_formats |-> formats,
                   show_deprecated_warning |-> show,
                   parents |-> IF pf.exists THEN pf.lines ELSE <<>>,
                   i |-> 1]]

-----------------------------------------------------------------------------
(* _expand_parent_colon *)

\* _expand_parent_colon resolving "name:sub" against the current repository,
\* whatever the name
ExpandColonCurrentRepoOnly(parentPath, repo_loc) ==
    LET colon == find(parentPath, colon_char) IN
    IF colon = -1 THEN [raise |-> FALSE, path |-> Path(parentPath)]
    ELSE IF repo_loc = NonePath THEN [raise |-> TRUE, path |-> NonePath]
    ELSE [raise |-> FALSE,
          path  |-> normalize_path(Path(
              os_path_join(os_path_join(fspath(repo_loc), <<"profiles">>),
                           SliceFrom(parentPath, colon + 1))))]

\* the value returned, or the ParseError raised
_expand_parent_colon(parentPath, repo_loc) ==
    LET colon == find(parentPath, colon_char) IN
    IF colon = -1 THEN [raise |-> FALSE, path |-> Path(parentPath)]
    ELSE IF colon = 0 THEN
        IF repo_loc = NonePath THEN [raise |-> TRUE, path |-> NonePath]
        ELSE [raise |-> FALSE,
              path  |-> normalize_path(Path(
                  os_path_join(os_path_join(fspath(repo_loc), <<"profiles">>),
                               SliceFrom(parentPath, colon + 1))))]
    ELSE
        LET p_repo_name == SliceTo(parentPath, colon) IN
        IF p_repo_name \notin RepoNames THEN [raise |-> TRUE, path |-> NonePath]
        ELSE [raise |-> FALSE,
              path  |-> normalize_path(Path(
                  os_path_join(os_path_join(fspath(get_location_for_name(p_repo_name)),
                                            <<"profiles">>),
                               SliceFrom(parentPath, colon + 1))))]

\* one listed parent turned into the path _addProfile recurses into
\* (lines 249-263), or the ParseError of _expand_parent_colon
ParentTarget(frame, parentPath) ==
    LET useColon == ~startswith(parentPath, sep) /\ frame.allow_parent_colon
        e        == IF useColon THEN _expand_parent_colon(parentPath, frame.repo_loc)
                    ELSE [raise |-> FALSE, path |-> Path(parentPath)]
    IN [raise |-> e.raise,
        colon |-> useColon,
        path  |-> IF e.raise THEN NonePath
                  ELSE normalize_path(joinpath(frame.currentPath, e.path))]

-----------------------------------------------------------------------------
(* Python values of set_root_override: None, a str or a pathlib.Path.  A Path
   is kept by its string, which pathlib holds without empty segments and
   without a trailing separator. *)

PyNone    == [kind |-> "None", s |-> <<>>]
Str(s)    == [kind |-> "str", s |-> s]
PathV(s)  == [kind |-> "Path", s |-> fspath(Path(s))]

\* a == b: a Path never equals a str
PyEq(a, b) == a.kind = b.kind /\ a.s = b.s

\* bool(v): None and the empty str are false, every Path is true
Truthy(v) == v.kind = "Path" \/ (v.kind = "str" /\ v.s # <<>>)

\* attribute lookups: str has strip and no resolve, Path has resolve and no strip
HasStrip(v)   == v.kind = "str"
HasResolve(v) == v.kind = "Path"

\* normalize_path(v.resolve()) of a Path
ResolveNormalize(v) == PathV(fspath(normalize_path(Path(v.s))))

\* GLOBAL_CONFIG_PATH of portage.const
GLOBAL_CONFIG_PATH == PathV(<<sep, "usr", sep, "share", sep, "portage", sep, "config">>)

-----------------------------------------------------------------------------
(* Inputs *)

\* parent references as they stand in `parent` files
refUpA     == <<"..", sep, "a">>
refUpB     == <<"..", sep, "b">>
refMissing == <<"..", sep, "zz">>
refColonB  == <<colon_char, "b">>
refR2C     == <<"r2", colon_char, "c">>
refR1A     == <<"r1", colon_char, "a">>
refUnknown == <<"zz", colon_char, "c">>
refAbsE    == <<sep, "e">>
refAbsD    == <<sep, "r1", sep, "n", sep, "profiles", sep, "d">>

Lines(l) == [exists |-> TRUE, lines |-> l]

\* the `parent` files each profile directory may have
ParentChoices(p) ==
    IF p = A THEN {NoFile, Lines(<<refUpB>>), Lines(<<refUpB, refR2C>>),
                   Lines(<<refR2C, refUpB>>), Lines(<<refColonB, refAbsE>>),
                   Lines(<<refAbsD, refUnknown>>), Lines(<<refMissing>>)}
    ELSE IF p = B THEN {NoFile, Lines(<<>>), Lines(<<refR2C>>), Lines(<<refUpA>>)}
    ELSE IF p = C THEN {NoFile, Lines(<<refAbsD>>), Lines(<<refR1A>>)}
    ELSE IF p = D THEN {NoFile, Lines(<<refAbsE>>)}
    ELSE IF p = E THEN {NoFile, Lines(<<refR1A>>), Lines(<<refColonB>>)}
    ELSE {NoFile}

Layout(formats, eapi) == [profile_formats |-> formats, profile_eapi_when_unspecified |-> eapi]

Eapi(content) == [exists |-> TRUE, content |-> content]

NoEapiFiles == [p \in ProfileDirs |-> NoEapi]

\* repository layouts together with the eapi files of the profile directories
Scenarios ==
    { [layouts  |-> (R1 :> Layout(<<"portage-2">>, NoneStr)
                     @@ RN :> Layout(<<"portage-1">>, <<"7">>)
                     @@ R2 :> Layout(<<"portage-2">>, <<>>)),
       eapiFile |-> NoEapiFiles],
      [layouts  |-> (R1 :> Layout(<<"portage-1-compat">>, <<"5">>)
                     @@ RN :> Layout(<<"portage-2", "build-id">>, <<"7">>)
                     @@ R2 :> Layout(<<"portage-1-compat">>, NoneStr)),
       eapiFile |-> [NoEapiFiles EXCEPT ![A] = Eapi(<<" ", "7", " ", "\n", "99", "\n">>)]],
      [layouts  |-> (R1 :> Layout(<<"portage-2">>, <<"99">>)
                     @@ RN :> Layout(<<"portage-1">>, NoneStr)
                     @@ R2 :> Layout(<<"portage-2">>, NoneStr)),
       eapiFile |-> [NoEapiFiles EXCEPT ![C] = Eapi(<<"5", "\n">>)]],
      [layouts  |-> (R1 :> Layout(<<"portage-2">>, <<"7">>)
                     @@ RN :> Layout(<<"portage-1-compat">>, <<"0">>)
                     @@ R2 :> Layout(<<"portage-1-compat">>, <<"0">>)),
       eapiFile |-> [NoEapiFiles EXCEPT ![B] = Eapi(<<"99", "\n">>),
                                        ![E] = Eapi(<<"0">>)]],
      [layouts  |-> (R1 :> Layout(<<"portage-1-compat">>, NoneStr)
                     @@ RN :> Layout(<<"portage-1-compat">>, <<"5">>)
                     @@ R2 :> Layout(<<"portage-1", "portage-2">>, <<"5">>)),
       eapiFile |-> [NoEapiFiles EXCEPT ![D] = Eapi(<<"\n">>)]] }

\* config_root / CUSTOM_PROFILE_PATH
custom_prof == Dir(<<"etc", "portage", "profile">>)

NoError == [kind |-> "none", path |-> NonePath]

-----------------------------------------------------------------------------
(* load_profiles *)

\* the profile machine leaves the roots as the constructor set them
InitRoot ==
    /\ eprefix = Dir(<<>>)
    /\ sysroot = Str(<<sep>>)
    /\ target_root = PyNone
    /\ root_outcome = "none"
    /\ ensured = FALSE
    /\ eroot = PyNone
    /\ global_config_path = PyNone
    /\ root_call = [target_root |-> PyNone, root_overwrite |-> PyNone]

InitLoad ==
    /\ pc = "start"
    /\ profile_path = NonePath
    /\ callstack = <<>>
    /\ profiles = <<>>
    /\ profiles_complex = <<>>
    /\ user_profile_dir = NonePath
    /\ error = NoError
    /\ logged = FALSE
    /\ discarded = 0
    /\ visited = {}
    /\ warned = <<>>
    /\ expanded = {}
    /\ custom_seen = "unread"

Init ==
    /\ \E a \in ParentChoices(A), b \in ParentChoices(B), c \in ParentChoices(C),
          d \in ParentChoices(D), e \in ParentChoices(E), l \in ParentChoices(L) :
          parentFile = (A :> a @@ B :> b @@ C :> c @@ D :> d @@ E :> e @@ L :> l)
    /\ \E sc \in Scenarios : layouts = sc.layouts /\ eapiFile = sc.eapiFile
    /\ config_profile_path \in {NonePath, E}
    /\ user_config \in BOOLEAN
    /\ sync_mode \in BOOLEAN
    /\ InitLoad
    /\ InitRoot

\* raise ParseError: the activations are unwound up to the try of load_profiles
Raise(kind, path) ==
    /\ pc' = "raised"
    /\ error' = [kind |-> kind, path |-> path]
    /\ callstack' = <<>>

\* self._addProfile(currentPath, repositories, known_repos, previous_repos),
\* called with the activations `below` on the stack, up to its loop
Call(currentPath, previous_repos, below) ==
    LET r == AddProfileEntry(currentPath, previous_repos) IN
    /\ visited' = visited \cup {currentPath}
    /\ warned' = IF r.warn
                 THEN Append(warned, [path |-> currentPath,
                                      show |-> r.frame.show_deprecated_warning])
                 ELSE warned
    /\ IF r.raise # "none"
       THEN Raise(r.raise, currentPath)
       ELSE /\ pc' = "resolving"
            /\ callstack' = Append(below, r.frame)
            /\ UNCHANGED error

\* load_profiles up to the call of _addProfile (lines 81-134)
LoadProfiles ==
    /\ pc = "start"
    /\ \E make_profile \in {NonePath, A} :
          LET chosen == IF config_profile_path = NonePath THEN make_profile
                        ELSE config_profile_path
          IN /\ profile_path' = chosen
             /\ IF chosen # NonePath
                THEN Call(chosen, <<>>, <<>>)
                ELSE /\ pc' = "user"
                     /\ UNCHANGED <<callstack, error, visited, warned>>
    /\ profiles' = <<>>
    /\ profiles_complex' = <<>>
    /\ UNCHANGED <<user_profile_dir, logged, discarded, expanded, custom_seen, fsvars,
                   rootvars>>

\* VisitParent with a guard against cycles: a parent that is already being
\* resolved is passed over
VisitParentGuarded ==
    /\ pc = "resolving"
    /\ callstack # <<>>
    /\ Len(callstack) < MaxDepth
    /\ LET n == Len(callstack)
           f == callstack[n]
       IN /\ f.i <= Len(f.parents)
          /\ LET parentPath == f.parents[f.i]
                 t == ParentTarget(f, parentPath)
             IN /\ expanded' = expanded \cup
                       {[from |-> f.currentPath, repo_loc |-> f.repo_loc, ref |-> parentPath,
                         colon |-> t.colon, raise |-> t.raise, path |-> t.path]}
                /\ IF t.raise \/ ~exists_raise_eaccess(t.path)
                   THEN /\ Raise("parent_not_found", f.currentPath)
                        /\ UNCHANGED <<visited, warned>>
                   ELSE IF \E k \in 1..n : callstack[k].currentPath = t.path
                   THEN /\ callstack' = [callstack EXCEPT ![n].i = f.i + 1]
                        /\ UNCHANGED <<pc, error, visited, warned>>
                   ELSE Call(t.path, f.intersecting_repos,
                             [callstack EXCEPT ![n].i = f.i + 1])
    /\ UNCHANGED <<profile_path, profiles, profiles_complex, user_profile_dir, logged,
                   discarded, custom_seen, fsvars, rootvars>>

\* one turn of the loop over the parents (lines 248-270): the reference is
\* expanded and joined, and _addProfile is called on the parent
VisitParent ==
    /\ pc = "resolving"
    /\ callstack # <<>>
    /\ Len(callstack) < MaxDepth
    /\ LET n == Len(callstack)
           f == callstack[n]
       IN /\ f.i <= Len(f.parents)
          /\ LET parentPath == f.parents[f.i]
                 t == ParentTarget(f, parentPath)
             IN /\ expanded' = expanded \cup
                       {[from |-> f.currentPath, repo_loc |-> f.repo_loc, ref |-> parentPath,
                         colon |-> t.colon, raise |-> t.raise, path |-> t.path]}
                /\ IF t.raise \/ ~exists_raise_eaccess(t.path)
                   THEN /\ Raise("parent_not_found", f.currentPath)
                        /\ UNCHANGED <<visited, warned>>
                   ELSE Call(t.path, f.intersecting_repos,
                             [callstack EXCEPT ![n].i = f.i + 1])
    /\ UNCHANGED <<profile_path, profiles, profiles_complex, user_profile_dir, logged,
                   discarded, custom_seen, fsvars, rootvars>>

\* AppendProfile putting the node in front of what was appended so far
AppendProfileInFront ==
    /\ pc = "resolving"
    /\ callstack # <<>>
    /\ LET n == Len(callstack)
           f == callstack[n]
       IN /\ f.i > Len(f.parents)
          /\ profiles' = <<f.currentPath>> \o profiles
          /\ profiles_complex' = <<_profile_node(f.currentPath, f.allow_directories, FALSE,
                                                 f.current_formats, f.eapi,
                                                 \E k \in 1..Len(f.current_formats) :
                                                     f.current_formats[k] = "build-id",
                                                 f.show_deprecated_warning)>>
                                 \o profiles_complex
          /\ callstack' = SubSeq(callstack, 1, n - 1)
          /\ pc' = IF n = 1 THEN "user" ELSE "resolving"
    /\ UNCHANGED <<profile_path, user_profile_dir, error, logged, discarded, visited,
                   warned, expanded, custom_seen, fsvars, rootvars>>

\* AppendProfile skipping a directory that is already in the stack
AppendProfileOnce ==
    /\ pc = "resolving"
    /\ callstack # <<>>
    /\ LET n == Len(callstack)
           f == callstack[n]
           seen == \E i \in 1..Len(profiles) : profiles[i] = f.currentPath
       IN /\ f.i > Len(f.parents)
          /\ profiles' = IF seen THEN profiles ELSE Append(profiles, f.currentPath)
          /\ profiles_complex' =
                 IF seen THEN profiles_complex
                 ELSE Append(profiles_complex,
                          _profile_node(f.currentPath, f.allow_directories, FALSE,
                                        f.current_formats, f.eapi,
                                        \E k \in 1..Len(f.current_formats) :
                                            f.current_formats[k] = "build-id",
                                        f.show_deprecated_warning))
          /\ callstack' = SubSeq(callstack, 1, n - 1)
          /\ pc' = IF n = 1 THEN "user" ELSE "resolving"
    /\ UNCHANGED <<profile_path, user_profile_dir, error, logged, discarded, visited,
                   warned, expanded, custom_seen, fsvars, rootvars>>

\* the end of _addProfile (lines 272-277): the node is appended and the
\* activation returns
AppendProfile ==
    /\ pc = "resolving"
    /\ callstack # <<>>
    /\ LET n == Len(callstack)
           f == callstack[n]
       IN /\ f.i > Len(f.parents)
          /\ profiles' = Append(profiles, f.currentPath)
          /\ profiles_complex' = Append(profiles_complex,
                 _profile_node(f.currentPath, f.allow_directories, FALSE,
                               f.current_formats, f.eapi,
                               \E k \in 1..Len(f.current_formats) :
                                   f.current_formats[k] = "build-id",
                               f.show_deprecated_warning))
          /\ callstack' = SubSeq(callstack, 1, n - 1)
          /\ pc' = IF n = 1 THEN "user" ELSE "resolving"
    /\ UNCHANGED <<profile_path, user_profile_dir, error, logged, discarded, visited,
                   warned, expanded, custom_seen, fsvars, rootvars>>

\* CatchParseError keeping what was appended before the error
CatchParseErrorKeepsPartial ==
    /\ pc = "raised"
    /\ logged' = ~sync_mode
    /\ discarded' = Len(profiles)
    /\ pc' = "user"
    /\ UNCHANGED <<profile_path, callstack, profiles, profiles_complex, user_profile_dir,
                   error, visited, warned, expanded, custom_seen, fsvars, rootvars>>

\* CatchParseError writing its messages in sync mode too
CatchParseErrorAlwaysLogs ==
    /\ pc = "raised"
    /\ logged' = TRUE
    /\ discarded' = Len(profiles)
    /\ profiles' = <<>>
    /\ profiles_complex' = <<>>
    /\ pc' = "user"
    /\ UNCHANGED <<profile_path, callstack, user_profile_dir, error, visited, warned,
                   expanded, custom_seen, fsvars, rootvars>>

\* except ParseError (lines 135-140)
CatchParseError ==
    /\ pc = "raised"
    /\ logged' = ~sync_mode
    /\ discarded' = Len(profiles)
    /\ profiles' = <<>>
    /\ profiles_complex' = <<>>
    /\ pc' = "user"
    /\ UNCHANGED <<profile_path, callstack, user_profile_dir, error, visited, warned,
                   expanded, custom_seen, fsvars, rootvars>>

\* AppendUserProfile without the test that a profile was resolved
AppendUserProfileAlways ==
    /\ pc = "user"
    /\ \E custom_exists \in BOOLEAN, user_eapi \in {NoneStr, <<"7">>} :
          /\ custom_seen' = IF user_config
                            THEN (IF custom_exists THEN "yes" ELSE "no")
                            ELSE "unread"
          /\ IF user_config /\ custom_exists
             THEN /\ user_profile_dir' = custom_prof
                  /\ profiles' = Append(profiles, custom_prof)
                  /\ profiles_complex' = Append(profiles_complex,
                         _profile_node(custom_prof, TRUE, TRUE,
                                       <<"profile-bashrcs", "profile-set">>, user_eapi,
                                       TRUE, FALSE))
             ELSE UNCHANGED <<user_profile_dir, profiles, profiles_complex>>
    /\ pc' = "done"
    /\ UNCHANGED <<profile_path, callstack, error, logged, discarded, visited, warned,
                   expanded, fsvars, rootvars>>

\* the user profile and the final tuples (lines 142-161)
AppendUserProfile ==
    /\ pc = "user"
    /\ \E custom_exists \in BOOLEAN, user_eapi \in {NoneStr, <<"7">>} :
          /\ custom_seen' = IF user_config /\ profiles # <<>>
                            THEN (IF custom_exists THEN "yes" ELSE "no")
                            ELSE "unread"
          /\ IF user_config /\ profiles # <<>> /\ custom_exists
             THEN /\ user_profile_dir' = custom_prof
                  /\ profiles' = Append(profiles, custom_prof)
                  /\ profiles_complex' = Append(profiles_complex,
                         _profile_node(custom_prof, TRUE, TRUE,
                                       <<"profile-bashrcs", "profile-set">>, user_eapi,
                                       TRUE, FALSE))
             ELSE UNCHANGED <<user_profile_dir, profiles, profiles_complex>>
    /\ pc' = "done"
    /\ UNCHANGED <<profile_path, callstack, error, logged, discarded, visited, warned,
                   expanded, fsvars, rootvars>>

Next ==
    \/ LoadProfiles
    \/ VisitParent
    \/ AppendProfile
    \/ CatchParseError
    \/ AppendUserProfile

Spec == Init /\ [][Next]_vars

-----------------------------------------------------------------------------
(* set_root_override *)

rootOpt  == <<sep, "opt", sep, "root">>
rootSys  == <<sep, "opt", sep, "sys">>
rootDots == <<sep, "opt", sep, "sys", sep, "..", sep, "root", sep>>

\* self.sysroot as __init__ leaves it (lines 69-72)
ConstructSysroot(arg) ==
    IF arg = PyNone THEN Str(<<sep>>)
    ELSE PathV(fspath(normalize_path(Path(IF Truthy(arg) THEN arg.s ELSE <<sep>>))))

SysrootArgs    == {PyNone, Str(<<>>), PathV(<<sep>>), PathV(rootOpt), PathV(rootSys)}
TargetRootArgs == {PyNone, PathV(<<sep>>), PathV(rootOpt), PathV(rootDots), Str(rootOpt)}
OverrideArgs   == {PyNone, PathV(<<sep>>), PathV(rootOpt), PathV(rootSys),
                   Str(<<>>), Str(<<" ", "\n">>), Str(rootOpt), Str(rootDots)}

InitRootOverride ==
    /\ eprefix \in {Dir(<<>>), Dir(<<"gentoo">>), Dir(<<"usr", "local">>)}
    /\ sysroot \in {ConstructSysroot(a) : a \in SysrootArgs}
    /\ target_root \in TargetRootArgs
    /\ root_outcome = "none"
    /\ ensured = FALSE
    /\ eroot = PyNone
    /\ global_config_path = PyNone
    /\ root_call = [target_root |-> PyNone, root_overwrite |-> PyNone]
    /\ parentFile = [p \in ProfileDirs |-> NoFile]
    /\ eapiFile = NoEapiFiles
    /\ layouts = [r \in RepoLocs |-> Layout(<<>>, NoneStr)]
    /\ config_profile_path = NonePath
    /\ user_config = TRUE
    /\ sync_mode = FALSE
    /\ InitLoad

\* lines 311-315: the target root before it is resolved, or the
\* AttributeError of root_overwrite.strip()
PickTargetRoot(current, root_overwrite) ==
    IF current = PyNone /\ root_overwrite # PyNone
    THEN IF ~HasStrip(root_overwrite)
         THEN [raise |-> TRUE, value |-> root_overwrite]
         ELSE IF strip(root_overwrite.s) = <<>>
              THEN [raise |-> FALSE, value |-> PathV(<<sep>>)]
              ELSE [raise |-> FALSE, value |-> root_overwrite]
    ELSE [raise |-> FALSE, value |-> IF Truthy(current) THEN current ELSE PathV(<<sep>>)]

\* line 319
SysrootMismatch(sysroot_, target_root_) ==
    ~PyEq(sysroot_, Str(<<sep>>)) /\ ~PyEq(sysroot_, target_root_)

set_root_override(root_overwrite, isdir) ==
    /\ root_outcome = "none"
    /\ root_call' = [target_root |-> target_root, root_overwrite |-> root_overwrite]
    /\ LET picked == PickTargetRoot(target_root, root_overwrite) IN
       IF picked.raise \/ ~HasResolve(picked.value)
       THEN /\ root_outcome' = "AttributeError"
            /\ target_root' = picked.value
            /\ UNCHANGED <<ensured, eroot, global_config_path>>
       ELSE LET resolved == ResolveNormalize(picked.value) IN
            /\ target_root' = resolved
            /\ IF SysrootMismatch(sysroot, resolved)
               THEN /\ root_outcome' = "InvalidLocation"
                    /\ UNCHANGED <<ensured, eroot, global_config_path>>
               ELSE /\ ensured' = TRUE
                    /\ IF ~isdir
                       THEN /\ root_outcome' = "DirectoryNotFound"
                            /\ UNCHANGED <<eroot, global_config_path>>
                       ELSE /\ root_outcome' = "ok"
                            /\ eroot' = PathV(fspath(joinpath(Path(resolved.s),
                                              [abs |-> FALSE, parts |-> eprefix.parts])))
                            /\ global_config_path' = GLOBAL_CONFIG_PATH
    /\ UNCHANGED <<eprefix, sysroot, fsvars, loadvars>>

SetRootOverride ==
    \E root_overwrite \in OverrideArgs, isdir \in BOOLEAN :
        set_root_override(root_overwrite, isdir)

NextRoot == SetRootOverride

SpecRoot == InitRootOverride /\ [][NextRoot]_vars

-----------------------------------------------------------------------------
(* The parent graph, as the files and layouts define it *)

Fuel == Cardinality(ProfileDirs)

\* the listed parents of a directory, each turned into its target
ListedParents(n) ==
    LET f == AddProfileEntry(n, <<>>).frame
    IN [k \in 1..Len(f.parents) |-> ParentTarget(f, f.parents[k])]

Resolves(t) == ~t.raise /\ exists_raise_eaccess(t.path)

ParentsResolve(n) == \A k \in 1..Len(ListedParents(n)) : Resolves(ListedParents(n)[k])

\* the directories the parent file of n leads to
TargetSet(n) ==
    {ListedParents(n)[k].path :
        k \in {j \in 1..Len(ListedParents(n)) : Resolves(ListedParents(n)[j])}}

EmptyParentFile(n) == ParentsFileOf(n).exists /\ ParentsFileOf(n).lines = <<>>

\* no directory reachable from n through parent files is its own ancestor
RECURSIVE AcyclicFrom(_, _)
RECURSIVE AcyclicBelow(_, _, _)
AcyclicBelow(targets, k, fuel) ==
    \/ k > Len(targets)
    \/ /\ Resolves(targets[k]) => \A m \in {targets[k].path} : AcyclicFrom(m, fuel)
       /\ AcyclicBelow(targets, k + 1, fuel)

AcyclicFrom(n, fuel) ==
    fuel > 0 /\ AcyclicBelow(ListedParents(n), 1, fuel - 1)

\* the directories reachable from n through parent files, n included
RECURSIVE ReachableFrom(_, _)
ReachableFrom(n, fuel) ==
    {n} \cup
    IF fuel = 0 THEN {} ELSE UNION {ReachableFrom(m, fuel - 1) : m \in TargetSet(n)}

Reachable(n) == ReachableFrom(n, Fuel)

EapiSupportedAt(n) == eapi_is_supported(ResolveEapi(n, IntersectingRepos(n)))
NoEmptyParentAt(n) == ~EmptyParentFile(n)

\* an acyclic graph below n in which every listed parent exists and every
\* EAPI is supported
GraphOK(n) ==
    /\ AcyclicFrom(n, Fuel)
    /\ \A m \in Reachable(n) : ParentsResolve(m) /\ EapiSupportedAt(m)

\* the chain of n: the chains of its listed parents in file order, then n
RECURSIVE Chain(_, _)
RECURSIVE ChainsOf(_, _, _)
ChainsOf(targets, k, fuel) ==
    IF k > Len(targets) THEN <<>>
    ELSE (CHOOSE c \in {Chain(m, fuel) : m \in {targets[k].path}} : TRUE)
         \o ChainsOf(targets, k + 1, fuel)

Chain(n, fuel) ==
    IF fuel = 0 THEN <<>>
    ELSE ChainsOf(ListedParents(n), 1, fuel - 1) \o <<n>>

\* what the depth-first walk from n meets first: "ok" when it returns,
\* "error" when a ParseError is raised, "loop" when it never returns
RECURSIVE WalkOutcome(_, _)
RECURSIVE WalkParents(_, _, _)
WalkParents(targets, k, fuel) ==
    IF k > Len(targets) THEN "ok"
    ELSE IF ~Resolves(targets[k]) THEN "error"
    ELSE LET sub == CHOOSE o \in {WalkOutcome(m, fuel - 1) : m \in {targets[k].path}} : TRUE
         IN IF sub # "ok" THEN sub ELSE WalkParents(targets, k + 1, fuel)

WalkOutcome(n, fuel) ==
    IF fuel = 0 THEN "loop"
    ELSE IF EapiFileOf(n).exists /\ ~EapiSupportedAt(n) THEN "error"
    ELSE IF EmptyParentFile(n) THEN "error"
    ELSE WalkParents(ListedParents(n), 1, fuel)

\* the entries that are not the user profile
ResolvedPart(stack) ==
    IF user_profile_dir # NonePath THEN SubSeq(stack, 1, Len(stack) - 1) ELSE stack

Count(x, seq) == Cardinality({i \in 1..Len(seq) : seq[i] = x})

Finished == pc = "done" /\ profile_path # NonePath

-----------------------------------------------------------------------------
(* C1 *)

\* C1 as stated: for an acyclic graph in which every listed parent exists and
\* every EAPI is supported, the resolved stack is, for every node, the chains
\* of its listed parents in file order followed by the node, so that the
\* start profile is the last non-user entry.
C1_AsStated ==
    (Finished /\ GraphOK(profile_path)) =>
        /\ ResolvedPart(profiles) = Chain(profile_path, Fuel + 1)
        /\ ResolvedPart(profiles) # <<>>
        /\ ResolvedPart(profiles)[Len(ResolvedPart(profiles))] = profile_path

\* C1 amended: the same, for graphs in which, besides, no `parent` file that
\* exists is empty.
C1_ParentsBeforeNodeInFileOrder ==
    (Finished /\ GraphOK(profile_path) /\ (\A m \in Reachable(profile_path) : NoEmptyParentAt(m))) =>
        /\ ResolvedPart(profiles) = Chain(profile_path, Fuel + 1)
        /\ ResolvedPart(profiles) # <<>>
        /\ ResolvedPart(profiles)[Len(ResolvedPart(profiles))] = profile_path

\* two listed parents, the first with a parent of its own, all resolved
C1_Witness ==
    /\ Finished /\ GraphOK(A) /\ profile_path = A
    /\ parentFile[A].lines = <<refR2C, refUpB>>
    /\ ResolvedPart(profiles) = <<D, C, B, A>>

-----------------------------------------------------------------------------
(* C2 *)

\* C2: outside sync mode, when the walk from the top-level profile meets an
\* empty parent file, a missing or unresolvable parent or an unsupported
\* eapi file, load_profiles ends with both lists empty and no user profile.
C2_ErrorGivesEmptyStack ==
    (Finished /\ ~sync_mode /\ WalkOutcome(profile_path, Fuel + 1) = "error") =>
        /\ profiles = <<>>
        /\ profiles_complex = <<>>
        /\ user_profile_dir = NonePath
        /\ error.kind # "none"

\* an error below the top level, after nodes were appended, with user
\* configuration enabled
C2_Witness ==
    /\ Finished /\ ~sync_mode /\ user_config
    /\ WalkOutcome(profile_path, Fuel + 1) = "error"
    /\ discarded > 0
    /\ error.path # profile_path
    /\ profiles = <<>>

-----------------------------------------------------------------------------
(* C10 *)

\* the number of parent-file paths from m to n
RECURSIVE NumPaths(_, _, _)
RECURSIVE SumPaths(_, _, _, _)
SumPaths(targets, k, n, fuel) ==
    IF k > Len(targets) THEN 0
    ELSE (CHOOSE c \in {NumPaths(m, n, fuel) : m \in {targets[k].path}} : TRUE)
         + SumPaths(targets, k + 1, n, fuel)

NumPaths(m, n, fuel) ==
    IF fuel = 0 THEN 0
    ELSE (IF m = n THEN 1 ELSE 0) + SumPaths(ListedParents(m), 1, n, fuel - 1)

\* C10: no deduplication: after a successful resolution every directory is in
\* the stack once per parent-file path leading to it from the top-level
\* profile; and the two lists are always index-aligned.
C10_OncePerPathAndAligned ==
    /\ Len(profiles) = Len(profiles_complex)
    /\ \A i \in 1..Len(profiles) : profiles_complex[i].path = profiles[i]
    /\ (Finished /\ error.kind = "none") =>
          \A n \in ProfileDirs :
              Count(n, ResolvedPart(profiles)) = NumPaths(profile_path, n, Fuel + 1)

\* a profile inherited through two different parents is there twice
C10_Witness ==
    /\ Finished /\ error.kind = "none"
    /\ Count(C, ResolvedPart(profiles)) = 2
    /\ user_profile_dir # NonePath

-----------------------------------------------------------------------------
(* Repository attribution, stated on sets *)

ContainingRepos(p) == {r \in RepoLocs : is_relative_to(p, r)}

\* the containing repository that lies inside every other containing one
InnermostRepo(p) ==
    CHOOSE r \in ContainingRepos(p) : \A q \in ContainingRepos(p) : is_relative_to(r, q)

\* eapi file, else the default of the innermost repository, else "0"
ExpectedEapi(p) ==
    IF EapiFileOf(p).exists THEN strip(readline(EapiFileOf(p).content))
    ELSE IF ContainingRepos(p) # {}
            /\ layouts[InnermostRepo(p)].profile_eapi_when_unspecified \notin {NoneStr, <<>>}
         THEN layouts[InnermostRepo(p)].profile_eapi_when_unspecified
         ELSE <<"0">>

HasFormat(p, tag) ==
    /\ ContainingRepos(p) # {}
    /\ \E i \in 1..Len(layouts[InnermostRepo(p)].profile_formats) :
          layouts[InnermostRepo(p)].profile_formats[i] = tag

-----------------------------------------------------------------------------
(* C3 *)

\* C3 as stated: in sync mode a ParseError of the top-level resolution leaves
\* load_profiles as an exception, so load_profiles does not go on to its end
\* with an empty stack.
C3_AsStated ==
    ~(sync_mode /\ error.kind # "none" /\ pc \in {"user", "done"})

\* C3 amended: the ParseError is caught in sync mode and outside it, and the
\* stack is emptied in both; sync mode only leaves out the two messages.
C3_CaughtInEveryMode ==
    (error.kind # "none" /\ pc \in {"user", "done"}) =>
        /\ profiles = <<>>
        /\ profiles_complex = <<>>
        /\ logged = ~sync_mode

\* sync mode, an error after nodes were appended, load_profiles finished
C3_Witness ==
    /\ pc = "done" /\ sync_mode /\ error.kind # "none"
    /\ discarded > 0 /\ profiles = <<>> /\ ~logged

-----------------------------------------------------------------------------
(* C4 *)

EapiMatches ==
    \A i \in 1..Len(profiles_complex) :
        ~profiles_complex[i].is_user_profile =>
            profiles_complex[i].eapi = ExpectedEapi(profiles_complex[i].path)

\* C4 as stated: every node has the eapi of its eapi file, else of the
\* innermost repository, else "0", and a visit whose resolved eapi is not
\* supported raises ParseError, whichever source the value has.
C4_AsStated ==
    /\ EapiMatches
    /\ \A p \in visited :
          ~eapi_is_supported(ExpectedEapi(p)) =>
              error = [kind |-> "unsupported_eapi", path |-> p]

\* C4 amended: the same precedence; an unsupported value raises ParseError
\* when it was read from the eapi file, and only then: a repository default
\* is used unchecked.
C4_EapiPrecedenceFileChecked ==
    /\ EapiMatches
    /\ \A p \in visited :
          (EapiFileOf(p).exists /\ ~eapi_is_supported(ExpectedEapi(p))) =>
              error = [kind |-> "unsupported_eapi", path |-> p]
    /\ error.kind = "unsupported_eapi" => EapiFileOf(error.path).exists

\* a node appended with the unsupported default of its repository, a node
\* with the value of its eapi file, and a node of the nested repository with
\* the fallback "0" of the inner repository
C4_Witness ==
    /\ pc = "done" /\ error.kind = "none"
    /\ \E i \in 1..Len(profiles_complex) :
          /\ profiles_complex[i].path = A
          /\ profiles_complex[i].eapi = <<"99">>
    /\ \E i \in 1..Len(profiles_complex) :
          /\ profiles_complex[i].path = C
          /\ profiles_complex[i].eapi = <<"5">>
          /\ EapiFileOf(C).exists
    /\ \E i \in 1..Len(profiles_complex) :
          /\ profiles_complex[i].path = D
          /\ profiles_complex[i].eapi = <<"0">>

-----------------------------------------------------------------------------
(* C5 *)

CompatNode(p) ==
    /\ ContainingRepos(p) # {}
    /\ layouts[InnermostRepo(p)].profile_formats = <<"portage-1-compat">>
    /\ ~eapi_allows_directories_on_profile_level_and_repository_level(ExpectedEapi(p))

\* C5 as stated: the advisory is emitted only for nodes whose
\* show_deprecated_warning is true.
C5_AsStated ==
    \A i \in 1..Len(warned) : warned[i].show

\* C5 amended: the advisory is emitted for every visited node in compat mode
\* that has offending directories, whatever its show_deprecated_warning;
\* show_deprecated_warning is true exactly when the repositories containing
\* the node differ from those containing the node that listed it (none, for
\* the top-level node).
C5_AdvisoryNotGated ==
    /\ \A i \in 1..Len(warned) :
          CompatNode(warned[i].path) /\ Offenders(warned[i].path) # {}
    /\ \A k \in 1..Len(callstack) :
          LET f == callstack[k] IN
          /\ (CompatNode(f.currentPath) /\ Offenders(f.currentPath) # {}) =>
                \E i \in 1..Len(warned) :
                    /\ warned[i].path = f.currentPath
                    /\ warned[i].show = f.show_deprecated_warning
          /\ f.show_deprecated_warning =
                (ContainingRepos(f.currentPath) #
                    (IF k = 1 THEN {} ELSE ContainingRepos(callstack[k - 1].currentPath)))

\* the advisory emitted for a node listed by a node of the same repository
C5_Witness ==
    /\ Len(callstack) >= 2
    /\ \E i \in 1..Len(warned) :
          /\ ~warned[i].show
          /\ warned[i].path = callstack[Len(callstack)].currentPath
    /\ InnermostRepo(callstack[Len(callstack)].currentPath)
          = InnermostRepo(callstack[Len(callstack) - 1].currentPath)

-----------------------------------------------------------------------------
(* C6 *)

UserEntries == {i \in 1..Len(profiles_complex) : profiles_complex[i].is_user_profile}

\* C6: at most one user profile node; it is the last entry of both lists, has
\* allow_directories and no show_deprecated_warning, and is there only when
\* user configuration is enabled, the override directory exists and at least
\* one profile was resolved; the resolver's nodes are not user profiles.
C6_UserProfileLast ==
    /\ Cardinality(UserEntries) <= 1
    /\ pc # "done" => UserEntries = {}
    /\ \A i \in UserEntries :
          /\ i = Len(profiles_complex) /\ i = Len(profiles)
          /\ profiles[i] = custom_prof
          /\ profiles_complex[i].allow_directories
          /\ ~profiles_complex[i].show_deprecated_warning
          /\ user_config /\ custom_seen = "yes"
          /\ i >= 2 /\ error.kind = "none"

\* the user profile appended after a resolved stack of two nodes or more
C6_Witness ==
    /\ pc = "done" /\ UserEntries = {Len(profiles)} /\ Len(profiles) >= 3

-----------------------------------------------------------------------------
(* C7 *)

ColonEnabled(n) == ContainingRepos(n) = {} \/ HasFormat(n, "portage-2")

FirstColon(ref) ==
    CHOOSE i \in 1..Len(ref) : ref[i] = colon_char /\ \A j \in 1..(i - 1) : ref[j] # colon_char

InProfiles(loc, sub) ==
    [abs |-> TRUE, parts |-> loc.parts \o <<<<"profiles">>>> \o PathParts(sub)]

\* what the claim gives for reference ref listed by directory n
ExpectedParent(n, ref) ==
    LET literal == [raise |-> FALSE, path |-> normalize_path(joinpath(n, Path(ref)))] IN
    IF ref[1] = sep \/ ~ColonEnabled(n) THEN literal
    ELSE IF \A i \in 1..Len(ref) : ref[i] # colon_char THEN literal
    ELSE IF FirstColon(ref) = 1 THEN
        IF ContainingRepos(n) = {} THEN [raise |-> TRUE, path |-> NonePath]
        ELSE [raise |-> FALSE,
              path  |-> InProfiles(InnermostRepo(n), SubSeq(ref, 2, Len(ref)))]
    ELSE LET name == SubSeq(ref, 1, FirstColon(ref) - 1) IN
         IF name \notin RepoNames THEN [raise |-> TRUE, path |-> NonePath]
         ELSE [raise |-> FALSE,
               path  |-> InProfiles(get_location_for_name(name),
                                    SubSeq(ref, FirstColon(ref) + 1, Len(ref)))]

\* C7: a relative reference of a node with colon syntax enabled is left alone
\* without a colon, goes to <current repo>/profiles/<sub> with the colon in
\* front (ParseError without a repository) and to <named repo>/profiles/<sub>
\* otherwise (ParseError for an unknown name); with colon syntax not declared
\* by the node's repository, or an absolute reference, it is a literal path.
C7_ColonExpansion ==
    \A x \in expanded :
        /\ x.raise = ExpectedParent(x.from, x.ref).raise
        /\ x.path = ExpectedParent(x.from, x.ref).path
        /\ x.colon = (x.ref[1] # sep /\ ColonEnabled(x.from))

\* "r1:a" listed outside every repository, ":b" listed inside r1, and "r2:c"
\* taken literally
C7_Witness ==
    /\ \E x \in expanded : x.from = E /\ x.ref = refR1A /\ x.colon /\ x.path = A
    /\ \E x \in expanded : x.from = A /\ x.ref = refColonB /\ x.colon /\ x.path = B

\* "r2:c" is the directory of that name where colon syntax is not declared
C7_LiteralReached ==
    \E x \in expanded : x.from = A /\ x.ref = refR2C /\ ~x.colon /\ x.path = L /\ L \in visited

-----------------------------------------------------------------------------
(* C9 *)

\* some directory is being resolved inside its own resolution
CycleEntered ==
    \E i, j \in 1..Len(callstack) :
        i < j /\ callstack[i].currentPath = callstack[j].currentPath

\* activation k lies between two activations of one directory
OnCycle(k) ==
    \E i, j \in 1..Len(callstack) :
        i < j /\ i <= k /\ k <= j /\ callstack[i].currentPath = callstack[j].currentPath

TopAcyclic ==
    pc # "start" /\ (profile_path = NonePath \/ AcyclicFrom(profile_path, Fuel))

\* the steps a complete walk of n takes: one call and one append for each
\* activation (a parent that cannot be resolved costs the step that raises)
RECURSIVE WalkCost(_, _)
RECURSIVE WalkCostOf(_, _, _)
WalkCostOf(targets, k, fuel) ==
    IF k > Len(targets) THEN 0
    ELSE (IF ~Resolves(targets[k]) THEN 1
          ELSE CHOOSE c \in {WalkCost(m, fuel) : m \in {targets[k].path}} : TRUE)
         + WalkCostOf(targets, k + 1, fuel)

WalkCost(n, fuel) ==
    IF fuel = 0 THEN 0 ELSE 2 + WalkCostOf(ListedParents(n), 1, fuel - 1)

\* the position of load_profiles in its own body
Rank ==
    CASE pc = "start" -> 0
      [] pc = "resolving" -> 1
      [] pc = "raised" -> 2
      [] pc = "user" -> 3
      [] pc = "done" -> 4

\* the calls and appends of _addProfile made so far in a walk without error
Elapsed == Len(callstack) + 2 * Len(profiles)

\* the guards of the actions of Next: some step can be taken
CanStep ==
    \/ pc \in {"start", "raised", "user"}
    \/ /\ pc = "resolving"
       /\ callstack # <<>>
       /\ LET f == callstack[Len(callstack)]
          IN f.i > Len(f.parents) \/ Len(callstack) < MaxDepth

\* C9: on an acyclic parent graph load_profiles comes to its end: until it is
\* done a step can be taken, every step moves load_profiles on in its body or
\* is one more call or append of the walk, and the calls and appends of a
\* walk are bounded by the size of the graph.  There is no cycle detection:
\* once a directory is resolved inside its own resolution the walk stays
\* there, no directory on the cycle is appended, and a walk that meets a
\* cycle before any error never finishes.
C9_TerminatesUnlessCyclic ==
    /\ []((pc # "done" /\ ~CanStep) => ~(pc = "start" \/ TopAcyclic))
    /\ [][\/ Rank' > Rank
          \/ Rank' = Rank /\ pc = "resolving" /\ Elapsed' = Elapsed + 1]_vars
    /\ []((pc = "resolving" /\ Elapsed > WalkCost(profile_path, Fuel)) => ~TopAcyclic)
    /\ [][CycleEntered => CycleEntered']_vars
    /\ [](\A k \in 1..Len(callstack), i \in 1..Len(profiles) :
              OnCycle(k) => profiles[i] # callstack[k].currentPath)
    /\ []((pc \in {"user", "done"} /\ profile_path # NonePath)
              => WalkOutcome(profile_path, Fuel + 1) # "loop")

\* a directory met again while it is being resolved, after another parent
\* was resolved and appended
C9_Witness ==
    /\ CycleEntered
    /\ Len(callstack) = MaxDepth
    /\ profiles # <<>>
    /\ WalkOutcome(profile_path, Fuel + 1) = "loop"

-----------------------------------------------------------------------------
(* C8 *)

\* the target root the claim names: the constructor's value if given, else
\* the override, else "/" when unset or blank; normalized
ClaimedTargetRoot ==
    LET c == root_call
        chosen == IF c.target_root # PyNone THEN c.target_root.s
                  ELSE IF c.root_overwrite # PyNone /\ strip(c.root_overwrite.s) # <<>>
                       THEN c.root_overwrite.s
                       ELSE <<sep>>
    IN fspath(normalize_path(Path(chosen)))

SysrootAllowed == sysroot.s = <<sep>> \/ sysroot.s = ClaimedTargetRoot

\* C8: set_root_override succeeds only when sysroot is "/" or the normalized
\* target root; in every other case it raises InvalidLocation, before the
\* target root directory is ensured and before eroot and global_config_path
\* are set.
C8_AsStated ==
    root_outcome # "none" =>
        /\ root_outcome = "ok" => SysrootAllowed
        /\ ~SysrootAllowed =>
              /\ root_outcome = "InvalidLocation"
              /\ ~ensured
              /\ eroot = PyNone
              /\ global_config_path = PyNone

\* what holds of the code: a mismatch never gets as far as ensure_dirs, and
\* InvalidLocation is raised for it whenever the target root could be resolved
C8_MismatchNeverEnsured ==
    root_outcome # "none" =>
        /\ root_outcome = "ok" => SysrootAllowed
        /\ ~SysrootAllowed =>
              /\ root_outcome \in {"InvalidLocation", "AttributeError"}
              /\ ~ensured
              /\ eroot = PyNone
              /\ global_config_path = PyNone

====
